---- MODULE Spec2Model ----
(***************************************************************************)
(* IronFlow backward scheduler (src/app.py).                               *)
(*                                                                         *)
(* calculate_backward_schedule walks, for every block row, the process     *)
(* list in descending Order and derives the dates of every process from    *)
(* the block's deadline with add_business_days_numpy.                      *)
(*                                                                         *)
(* Dates are proleptic Gregorian ordinals (datetime.date.toordinal): day 1 *)
(* is 0001-01-01, a Monday.  NaT (0) is the value of a cell that was never *)
(* written.                                                                *)
(***************************************************************************)
EXTENDS Integers, Sequences, FiniteSets, TLC

\* ------------------------------------------------------------------------
\* Bounds of the model
\* ------------------------------------------------------------------------
\* largest number of block rows in the table handed to the scheduler
MaxBlocks == 2

\* the days before and after the end date of a walk on which the working-day
\* test is compared with its definition
CheckWindow == 14

\* ------------------------------------------------------------------------
\* Calendar dates
\* ------------------------------------------------------------------------
NaT == 0

IsLeap(y) == (y % 4 = 0) /\ ((y % 100 # 0) \/ (y % 400 = 0))

DaysBeforeYear(y) ==
    LET p == y - 1 IN p * 365 + (p \div 4) - (p \div 100) + (p \div 400)

DaysInMonth(y, m) ==
    IF m = 2 THEN (IF IsLeap(y) THEN 29 ELSE 28)
    ELSE IF m \in {4, 6, 9, 11} THEN 30 ELSE 31

RECURSIVE DaysBeforeMonth(_, _)
DaysBeforeMonth(y, m) ==
    IF m = 1 THEN 0 ELSE DaysBeforeMonth(y, m - 1) + DaysInMonth(y, m - 1)

\* date(y, m, d) as an ordinal
Date(y, m, d) == DaysBeforeYear(y) + DaysBeforeMonth(y, m) + d

\* date.weekday(): Monday = 0 .. Sunday = 6
Weekday(d) == (d + 6) % 7

\* ------------------------------------------------------------------------
\* NumPy based calendar arithmetic
\* ------------------------------------------------------------------------
\* work_weekdays_to_weekmask: a 7 character mask, here a sequence indexed
\* 1..7 (character k+1 is weekday k)
work_weekdays_to_weekmask(work_weekdays) ==
    [k \in 1..7 |-> IF (k - 1) \in work_weekdays THEN "1" ELSE "0"]

\* the array made of the team holidays alone
holidays_to_numpy_array_team(global_holidays, team_holidays) ==
    team_holidays

\* holidays_to_numpy_array: the union of both holiday sets
holidays_to_numpy_array(global_holidays, team_holidays) ==
    global_holidays \cup team_holidays

\* is_work_day_numpy without the holiday test
is_work_day_numpy_noholiday(date_np, weekmask, holidays) ==
    weekmask[Weekday(date_np) + 1] = "1"

is_work_day_numpy(date_np, weekmask, holidays) ==
    IF date_np \in holidays THEN FALSE
    ELSE weekmask[Weekday(date_np) + 1] = "1"

max_iterations == 365 * 2

\* the condition of a loop that takes a negative number of days for its
\* magnitude
LoopGuard_magnitude(s, days) ==
    /\ s.days_counted < (IF days < 0 THEN 0 - days ELSE days)
    /\ s.iteration < max_iterations

\* the condition of a loop that only waits for the working days
LoopGuard_unbounded(s, days) ==
    s.days_counted < days

\* the condition of the while loop of add_business_days_numpy
LoopGuard(s, days) ==
    s.days_counted < days /\ s.iteration < max_iterations

\* a loop whose first pass examines the end date itself
LoopBody_inclusive(s, weekmask, holidays) ==
    LET cd == IF s.iteration = 0 THEN s.current_date ELSE s.current_date - 1 IN
    [current_date |-> cd,
     days_counted |-> IF is_work_day_numpy(cd, weekmask, holidays)
                      THEN s.days_counted + 1 ELSE s.days_counted,
     iteration    |-> s.iteration + 1]

\* the body of the loop stepping forward in time
LoopBody_forward(s, weekmask, holidays) ==
    LET cd == s.current_date + 1 IN
    [current_date |-> cd,
     days_counted |-> IF is_work_day_numpy(cd, weekmask, holidays)
                      THEN s.days_counted + 1 ELSE s.days_counted,
     iteration    |-> s.iteration + 1]

\* one pass through the body of the while loop
LoopBody(s, weekmask, holidays) ==
    LET cd == s.current_date - 1 IN
    [current_date |-> cd,
     days_counted |-> IF is_work_day_numpy(cd, weekmask, holidays)
                      THEN s.days_counted + 1 ELSE s.days_counted,
     iteration    |-> s.iteration + 1]

\* the while loop run for at most k passes; a pass whose guard is false
\* leaves the loop variables as they are (the loop has been left)
RECURSIVE WhileLoop(_, _, _, _, _)
WhileLoop(s, days, weekmask, holidays, k) ==
    IF ~LoopGuard(s, days) THEN s
    ELSE IF k = 1 THEN LoopBody(s, weekmask, holidays)
    ELSE WhileLoop(WhileLoop(s, days, weekmask, holidays, k \div 2),
                   days, weekmask, holidays, k - (k \div 2))

\* the test after the loop, off by one
lookback_exhausted_late(iteration) == iteration > max_iterations

\* the test after the loop that raises ValueError
lookback_exhausted(iteration) == iteration >= max_iterations

\* the passes of the while loop that are followed: one more than the limit
\* the loop is meant to keep
LoopFuel == max_iterations + 1

\* add_business_days_numpy rejecting a calendar without work weekdays
\* before it looks at days
add_business_days_numpy_validating(end_date, days, work_weekdays, global_holidays, team_holidays) ==
    IF work_weekdays = {}
    THEN [raised |-> TRUE, diverged |-> FALSE, date |-> NaT,
          iteration |-> 0, days_counted |-> 0]
    ELSE IF days = 0
    THEN [raised |-> FALSE, diverged |-> FALSE, date |-> end_date,
          iteration |-> 0, days_counted |-> 0]
    ELSE
      LET weekmask == work_weekdays_to_weekmask(work_weekdays)
          holidays == holidays_to_numpy_array(global_holidays, team_holidays)
          s0 == [current_date |-> end_date, days_counted |-> 0, iteration |-> 0]
          s  == WhileLoop(s0, days, weekmask, holidays, LoopFuel)
      IN IF LoopGuard(s, days)
         THEN [raised |-> FALSE, diverged |-> TRUE, date |-> NaT,
               iteration |-> s.iteration, days_counted |-> s.days_counted]
         ELSE IF lookback_exhausted(s.iteration)
         THEN [raised |-> TRUE, diverged |-> FALSE, date |-> NaT,
               iteration |-> s.iteration, days_counted |-> s.days_counted]
         ELSE [raised |-> FALSE, diverged |-> FALSE, date |-> s.current_date,
               iteration |-> s.iteration, days_counted |-> s.days_counted]

\* add_business_days_numpy: the outcome of one call, with the final values
\* of the loop counters.  raised = TRUE is the ValueError of the function;
\* diverged = TRUE is a loop that is still running after LoopFuel passes.
add_business_days_numpy(end_date, days, work_weekdays, global_holidays, team_holidays) ==
    IF days = 0
    THEN [raised |-> FALSE, diverged |-> FALSE, date |-> end_date,
          iteration |-> 0, days_counted |-> 0]
    ELSE
      LET weekmask == work_weekdays_to_weekmask(work_weekdays)
          holidays == holidays_to_numpy_array(global_holidays, team_holidays)
          s0 == [current_date |-> end_date, days_counted |-> 0, iteration |-> 0]
          s  == WhileLoop(s0, days, weekmask, holidays, LoopFuel)
      IN IF LoopGuard(s, days)
         THEN [raised |-> FALSE, diverged |-> TRUE, date |-> NaT,
               iteration |-> s.iteration, days_counted |-> s.days_counted]
         ELSE IF lookback_exhausted(s.iteration)
         THEN [raised |-> TRUE, diverged |-> FALSE, date |-> NaT,
               iteration |-> s.iteration, days_counted |-> s.days_counted]
         ELSE [raised |-> FALSE, diverged |-> FALSE, date |-> s.current_date,
               iteration |-> s.iteration, days_counted |-> s.days_counted]

\* ------------------------------------------------------------------------
\* Process definitions (processes_df)
\* ------------------------------------------------------------------------
\* the reserved process names; NAME_DELIVERY stands for the Korean name of
\* the delivery sentinel of the source
NAME_PND == "PND"
NAME_DELIVERY == "Delivery"

\* the processes a pipeline is made of: Type and Team Code by Process Name
ProcessPool ==
    [n \in {"Cutting", "Fitting", "Final", NAME_PND, NAME_DELIVERY} |->
        IF n = "Cutting" THEN [Type |-> "Duration", Team_Code |-> "cutting"]
        ELSE IF n = "Fitting" THEN [Type |-> "Duration", Team_Code |-> "fitting"]
        ELSE IF n = "Final" THEN [Type |-> "Milestone", Team_Code |-> "final"]
        ELSE IF n = NAME_PND THEN [Type |-> "Milestone", Team_Code |-> "pnd"]
        ELSE [Type |-> "Milestone", Team_Code |-> "final"]]

ProcessNames == DOMAIN ProcessPool

\* a stored process table: rows in Order, Order = 1..N
MakeProcessesDf(names) ==
    [i \in 1..Len(names) |->
        [Process_Name |-> names[i],
         Type         |-> ProcessPool[names[i]].Type,
         Order        |-> i,
         Team_Code    |-> ProcessPool[names[i]].Team_Code]]

Orderings(S) ==
    {s \in [1..Cardinality(S) -> S] : \A i, j \in DOMAIN s : i # j => s[i] # s[j]}

\* the processes of the pipelines with one Duration process
PipelineNames == ProcessNames \ {"Fitting"}

\* every ordering of the four processes, and every ordering of the three
\* processes other than the delivery sentinel
Pipelines ==
    {MakeProcessesDf(s) : s \in Orderings(PipelineNames)
                              \cup Orderings(PipelineNames \ {NAME_DELIVERY})}

\* every ordering of the five processes, two of them Duration processes
PipelinesTwoDurations ==
    {MakeProcessesDf(s) : s \in Orderings(ProcessNames)}

\* DataFrame.sort_values('Order'): insertion of each row into the sorted
\* prefix, rows of equal Order keeping their sequence
RECURSIVE InsertByOrder(_, _)
InsertByOrder(sorted, r) ==
    IF sorted = << >> THEN <<r>>
    ELSE IF r.Order < sorted[Len(sorted)].Order
         THEN Append(InsertByOrder(SubSeq(sorted, 1, Len(sorted) - 1), r),
                     sorted[Len(sorted)])
         ELSE Append(sorted, r)

RECURSIVE sort_values(_)
sort_values(rows) ==
    IF rows = << >> THEN << >>
    ELSE InsertByOrder(sort_values(SubSeq(rows, 1, Len(rows) - 1)), rows[Len(rows)])

reversed(s) == [i \in 1..Len(s) |-> s[Len(s) + 1 - i]]

\* ------------------------------------------------------------------------
\* Team calendars (team_settings) and common holidays
\* ------------------------------------------------------------------------
MonSat == {0, 1, 2, 3, 4, 5}
MonFri == {0, 1, 2, 3, 4}

\* the day that may be a holiday: Tuesday 2026-04-28
HolidayCandidate == Date(2026, 4, 28)

TeamSetting(ww, th) == [work_weekdays |-> ww, team_holidays |-> th]

\* a default calendar of Monday to Friday
DefaultTeamSetting_weekdays == TeamSetting({0, 1, 2, 3, 4}, {})

\* the calendar used for a team code that is not a key of team_settings
DefaultTeamSetting == TeamSetting({0, 1, 2, 3, 4, 5}, {})

\* the team_settings mappings of the model: none configured, every team
\* Monday to Saturday, the cutting team Monday to Friday with a team
\* holiday, and a team without any work weekday
TeamSettingsChoices ==
    { [t \in {} |-> DefaultTeamSetting],
      [t \in {"cutting", "final", "pnd"} |-> TeamSetting(MonSat, {})],
      [t \in {"cutting", "final", "pnd"} |->
          IF t = "cutting" THEN TeamSetting(MonFri, {HolidayCandidate})
          ELSE TeamSetting(MonSat, {})],
      [t \in {"cutting", "final", "pnd"} |->
          IF t = "cutting" THEN TeamSetting({}, {})
          ELSE TeamSetting(MonSat, {})],
      [t \in {"cutting", "final", "pnd"} |->
          IF t = "final" THEN TeamSetting({}, {})
          ELSE TeamSetting(MonSat, {})] }

\* no common holiday, or two of them: the candidate and Thursday 2026-04-30
GlobalHolidaysChoices == { {}, {HolidayCandidate, Date(2026, 4, 30)} }

\* team_settings.get(team_code, default)
team_settings_get(settings, team_code) ==
    IF team_code \in DOMAIN settings THEN settings[team_code]
    ELSE DefaultTeamSetting

\* ------------------------------------------------------------------------
\* Block table (df_raw)
\* ------------------------------------------------------------------------
\* a cell of a <process>_Days column: an integer, NaN, or a text that is
\* not a number
CellInt(n) == [kind |-> "int", v |-> n]
CellNaN == [kind |-> "nan", v |-> 0]
CellStr == [kind |-> "str", v |-> 0]

DeadlineThu == Date(2026, 4, 30)
DeadlineMon == Date(2026, 4, 27)

\* a row: the deadline and the cells of the _Days columns the table has
BlockRow(deadline, days) == [Final_Date |-> deadline, Days |-> days]

RowsWithDays ==
    { BlockRow(DeadlineThu, [n \in {"Cutting"} |-> CellInt(3)]),
      BlockRow(DeadlineThu, [n \in {"Cutting"} |-> CellNaN]),
      BlockRow(DeadlineThu, [n \in {"Cutting"} |-> CellInt(0)]),
      BlockRow(DeadlineMon, [n \in {"Cutting"} |-> CellInt(-2)]),
      BlockRow(DeadlineMon, [n \in {"Cutting"} |-> CellStr]) }

RowsWithoutDays ==
    { BlockRow(d, [n \in {} |-> CellNaN]) : d \in {DeadlineThu, DeadlineMon} }

TablesOf(Rows) ==
    UNION { [1..k -> Rows] : k \in 1..MaxBlocks }

\* the tables: all rows of a table have the same columns
BlockTables == TablesOf(RowsWithDays) \cup TablesOf(RowsWithoutDays)

\* the columns the scheduler writes, empty (NaT) until written
OutputRow(r) ==
    [Final_Date |-> r.Final_Date,
     Days       |-> r.Days,
     PND        |-> NaT,
     Start      |-> [n \in ProcessNames |-> NaT],
     End        |-> [n \in ProcessNames |-> NaT],
     MDate      |-> [n \in ProcessNames |-> NaT]]

\* df.copy()
df_copy(table) == [i \in 1..Len(table) |-> OutputRow(table[i])]

\* ------------------------------------------------------------------------
\* State
\* ------------------------------------------------------------------------
VARIABLES
    processes_df,            \* the process table handed to the scheduler
    team_settings,           \* Team Code -> work_weekdays, team_holidays
    global_holidays,         \* the common holidays
    df_raw,                  \* the caller's block table
    calendars_at_start,      \* team_settings and global_holidays at the call
    df,                      \* the scheduler's copy of the block table
    processes_reversed,      \* the processes in descending Order
    idx,                     \* the row being scheduled (0: none yet)
    pos,                     \* the position in processes_reversed
    final_date,              \* the deadline of the row
    current_reference_date,  \* the reference date of the backward walk
    call,                    \* the last call of add_business_days_numpy
    pc,                      \* "start", "rows", "procs", "returned", "raised",
                             \* "looping" (a walk that does not end)
    error,                   \* the exception that ended the run
    df_scheduled,            \* the table returned to the caller
    admin_op                 \* the last operation of the admin page: the
                             \* button or the table edit, the row selected
                             \* and whether a move was made

vars == <<processes_df, team_settings, global_holidays, df_raw,
          calendars_at_start, df,
          processes_reversed, idx, pos, final_date, current_reference_date,
          call, pc, error, df_scheduled, admin_op>>

\* what no statement of the scheduler assigns
inputs == <<processes_df, team_settings, global_holidays, calendars_at_start,
            admin_op>>

\* the object the name df is bound to after line 200: the copy made by
\* df.copy(), not the caller's table
df_binding_caller == "caller"

df_binding == "copy"

\* the caller's table after the scheduler wrote new_df: untouched when the
\* scheduler works on a copy
caller_table_after(raw, new_df) ==
    IF df_binding = "copy" THEN raw ELSE new_df

NoCall == [made |-> FALSE]
NoTable == << >>
NoOp == [op |-> "none", selected_idx |-> 0, moved |-> FALSE]

Init ==
    /\ processes_df \in Pipelines
    /\ team_settings \in TeamSettingsChoices
    /\ global_holidays \in GlobalHolidaysChoices
    /\ df_raw \in BlockTables
    /\ calendars_at_start = [team_settings   |-> team_settings,
                             global_holidays |-> global_holidays]
    /\ df = NoTable
    /\ processes_reversed = << >>
    /\ idx = 0
    /\ pos = 0
    /\ final_date = NaT
    /\ current_reference_date = NaT
    /\ call = NoCall
    /\ pc = "start"
    /\ error = "none"
    /\ df_scheduled = NoTable
    /\ admin_op = NoOp

\* a call for one block and a pipeline with two Duration processes
InitTwoDurations ==
    /\ processes_df \in PipelinesTwoDurations
    /\ team_settings \in TeamSettingsChoices
    /\ global_holidays \in GlobalHolidaysChoices
    /\ df_raw \in {t \in BlockTables : Len(t) = 1}
    /\ calendars_at_start = [team_settings   |-> team_settings,
                             global_holidays |-> global_holidays]
    /\ df = NoTable
    /\ processes_reversed = << >>
    /\ idx = 0
    /\ pos = 0
    /\ final_date = NaT
    /\ current_reference_date = NaT
    /\ call = NoCall
    /\ pc = "start"
    /\ error = "none"
    /\ df_scheduled = NoTable
    /\ admin_op = NoOp

\* ------------------------------------------------------------------------
\* calculate_backward_schedule
\* ------------------------------------------------------------------------
\* the copy of the table and the processes in descending Order
\* the processes sorted and reversed in the table of the caller
Begin_processes_in_place ==
    /\ pc = "start"
    /\ df' = df_copy(df_raw)
    /\ processes_reversed' = reversed(sort_values(processes_df))
    /\ processes_df' = reversed(sort_values(processes_df))
    /\ idx' = 0
    /\ pc' = "rows"
    /\ UNCHANGED <<team_settings, global_holidays, calendars_at_start, df_raw,
                   pos, final_date, current_reference_date, call, error,
                   df_scheduled, admin_op>>

Begin_iteration_kept ==
    /\ pc = "start"
    /\ df' = df_copy(df_raw)
    /\ processes_reversed' = reversed(sort_values(processes_df))
    /\ pc' = "rows"
    /\ UNCHANGED <<inputs, df_raw, idx, pos, final_date, current_reference_date,
                   call, error, df_scheduled>>

\* the copy of the table, the processes in descending Order, and the row
\* iteration of line 207 at its beginning
Begin ==
    /\ pc = "start"
    /\ df' = df_copy(df_raw)
    /\ processes_reversed' = reversed(sort_values(processes_df))
    /\ idx' = 0
    /\ pc' = "rows"
    /\ UNCHANGED <<inputs, df_raw, pos, final_date, current_reference_date,
                   call, error, df_scheduled>>

\* the loop over the rows with the reference date set once, before it
NextRow_reference_kept ==
    /\ pc = "rows"
    /\ idx < Len(df)
    /\ idx' = idx + 1
    /\ final_date' = df_raw[idx + 1].Final_Date
    /\ current_reference_date' = IF idx = 0 THEN df_raw[idx + 1].Final_Date
                                 ELSE current_reference_date
    /\ pos' = 1
    /\ pc' = IF Len(processes_reversed) = 0 THEN "rows" ELSE "procs"
    /\ UNCHANGED <<inputs, df_raw, df, processes_reversed, call, error,
                   df_scheduled>>

\* for idx, row in df.iterrows(): the deadline of the next row
NextRow ==
    /\ pc = "rows"
    /\ idx < Len(df)
    /\ idx' = idx + 1
    /\ final_date' = df_raw[idx + 1].Final_Date
    /\ current_reference_date' = df_raw[idx + 1].Final_Date
    /\ pos' = 1
    /\ pc' = IF Len(processes_reversed) = 0 THEN "rows" ELSE "procs"
    /\ UNCHANGED <<inputs, df_raw, df, processes_reversed, call, error,
                   df_scheduled>>

\* return df
Return ==
    /\ pc = "rows"
    /\ idx = Len(df)
    /\ df_scheduled' = df
    /\ pc' = "returned"
    /\ UNCHANGED <<inputs, df_raw, df, processes_reversed, idx, pos, final_date,
                   current_reference_date, call, error>>

process == processes_reversed[pos]

\* the next process of the row, or the next row
Advance ==
    /\ pos' = pos + 1
    /\ pc' = IF pos = Len(processes_reversed) THEN "rows" ELSE "procs"

\* the exception leaves the function: nothing is returned
Raise(e) ==
    /\ pc' = "raised"
    /\ error' = e
    /\ UNCHANGED <<df, df_raw, pos, current_reference_date>>

\* the walk does not come back: the function neither returns nor raises
Diverge ==
    /\ pc' = "looping"
    /\ UNCHANGED <<df, df_raw, pos, current_reference_date, error>>

\* a delivery sentinel that starts the walk again from the deadline
VisitDelivery_reference_reset ==
    /\ pc = "procs"
    /\ process.Process_Name = NAME_DELIVERY
    /\ df' = [df EXCEPT ![idx].Final_Date = final_date]
    /\ df_raw' = caller_table_after(df_raw, df')
    /\ current_reference_date' = final_date
    /\ Advance
    /\ UNCHANGED <<inputs, processes_reversed, idx, final_date,
                   call, error, df_scheduled>>

\* the delivery sentinel
VisitDelivery ==
    /\ pc = "procs"
    /\ process.Process_Name = NAME_DELIVERY
    /\ df' = [df EXCEPT ![idx].Final_Date = final_date]
    /\ df_raw' = caller_table_after(df_raw, df')
    /\ Advance
    /\ UNCHANGED <<inputs, processes_reversed, idx, final_date,
                   current_reference_date, call, error, df_scheduled>>

\* pnd_date taken from the running reference date
pnd_date_of_reference(final, reference) == reference - 1

\* pnd_date of the PND sentinel
pnd_date_of(final, reference) == final - 1

\* the PND sentinel
VisitPND ==
    /\ pc = "procs"
    /\ process.Process_Name # NAME_DELIVERY
    /\ process.Process_Name = NAME_PND
    /\ LET pnd_date == pnd_date_of(final_date, current_reference_date) IN
         /\ df' = [df EXCEPT ![idx].PND = pnd_date]
         /\ df_raw' = caller_table_after(df_raw, df')
         /\ current_reference_date' = pnd_date
    /\ Advance
    /\ UNCHANGED <<inputs, processes_reversed, idx, final_date, call, error,
                   df_scheduled>>

IsSentinel(p) == p.Process_Name \in {NAME_DELIVERY, NAME_PND}

\* the call of add_business_days_numpy for the current process
CallFor(end_date, days) ==
    LET team_setting == team_settings_get(team_settings, process.Team_Code)
        work_weekdays == team_setting.work_weekdays
        team_holidays == team_setting.team_holidays
    IN [made            |-> TRUE,
        idx             |-> idx,
        process         |-> process.Process_Name,
        end_date        |-> end_date,
        days            |-> days,
        work_weekdays   |-> work_weekdays,
        global_holidays |-> global_holidays,
        team_holidays   |-> team_holidays,
        result          |-> add_business_days_numpy(end_date, days, work_weekdays,
                                                    global_holidays, team_holidays)]

\* a Milestone walking back from the reference date itself
milestone_prev_day_same(reference) == reference

\* the day a Milestone walks back from
milestone_prev_day(reference) == reference - 1

\* a Milestone process
VisitMilestone ==
    /\ pc = "procs"
    /\ ~IsSentinel(process)
    /\ process.Type = "Milestone"
    /\ \E c \in {CallFor(milestone_prev_day(current_reference_date), 1)} :
          /\ call' = c
          /\ IF c.result.diverged
             THEN Diverge
             ELSE IF c.result.raised
             THEN Raise("ValueError: add_business_days_numpy")
             ELSE /\ df' = [df EXCEPT ![idx].MDate[process.Process_Name] = c.result.date]
                  /\ df_raw' = caller_table_after(df_raw, df')
                  /\ current_reference_date' = c.result.date
                  /\ Advance
                  /\ UNCHANGED error
    /\ UNCHANGED <<inputs, processes_reversed, idx, final_date, df_scheduled>>

\* duration_days without the NaN test: int(NaN) raises ValueError
duration_days_nan_unchecked(row, process_name) ==
    IF process_name \notin DOMAIN row.Days
    THEN [raised |-> FALSE, days |-> 5]
    ELSE IF row.Days[process_name].kind = "int"
         THEN [raised |-> FALSE, days |-> row.Days[process_name].v]
         ELSE [raised |-> TRUE, days |-> 0]

\* days of a Duration process: 5 when the row has no <process>_Days column
\* or the cell is NaN, int(cell) otherwise; int() of a text that is not a
\* number raises ValueError
duration_days(row, process_name) ==
    IF process_name \notin DOMAIN row.Days \/ row.Days[process_name].kind = "nan"
    THEN [raised |-> FALSE, days |-> 5]
    ELSE IF row.Days[process_name].kind = "int"
         THEN [raised |-> FALSE, days |-> row.Days[process_name].v]
         ELSE [raised |-> TRUE, days |-> 0]

\* an end date on the reference date itself
duration_end_date_same(reference) == reference

\* end date of a Duration process
duration_end_date(reference) == reference - 1

\* a Duration process
VisitDuration ==
    /\ pc = "procs"
    /\ ~IsSentinel(process)
    /\ process.Type # "Milestone"
    /\ process.Type = "Duration"
    /\ LET d == duration_days(df[idx], process.Process_Name) IN
         IF d.raised
         THEN /\ Raise("ValueError: int")
              /\ UNCHANGED call
         ELSE \E c \in {CallFor(duration_end_date(current_reference_date), d.days)} :
                 /\ call' = c
                 /\ IF c.result.diverged
                    THEN Diverge
                    ELSE IF c.result.raised
                    THEN Raise("ValueError: add_business_days_numpy")
                    ELSE /\ df' = [df EXCEPT ![idx].Start[process.Process_Name] = c.result.date,
                                             ![idx].End[process.Process_Name] = c.end_date]
                         /\ df_raw' = caller_table_after(df_raw, df')
                         /\ current_reference_date' = c.result.date
                         /\ Advance
                         /\ UNCHANGED error
    /\ UNCHANGED <<inputs, processes_reversed, idx, final_date, df_scheduled>>

Next ==
    \/ Begin
    \/ NextRow
    \/ VisitDelivery
    \/ VisitPND
    \/ VisitMilestone
    \/ VisitDuration
    \/ Return

Spec == Init /\ [][Next]_vars

SpecTwoDurations == InitTwoDurations /\ [][Next]_vars

\* the team codes the settings panel offers: every team of the pipeline
\* except pnd and final
EditableTeams ==
    {processes_df[k].Team_Code : k \in DOMAIN processes_df} \ {"pnd", "final"}

\* the mapping after the panel was opened for a team: a team without an
\* entry gets the Monday to Saturday entry
team_settings_opened(settings, team_code) ==
    [t \in DOMAIN settings \cup {team_code} |->
        IF t \in DOMAIN settings THEN settings[t]
        ELSE TeamSetting({0, 1, 2, 3, 4, 5}, {})]

\* the edits of the model: Saturday is taken from the work weekdays of a
\* team, the holiday candidate is added to its holidays
EditedWorkWeekdays == {MonFri}

EditedTeamHolidays == {{HolidayCandidate}}

\* the work weekdays of a team are stored in the entry of the mapping the
\* running scheduler was given
EditWorkWeekdays ==
    /\ pc \in {"rows", "procs"}
    /\ \E t \in EditableTeams, ww \in EditedWorkWeekdays :
          /\ team_settings_get(team_settings, t).work_weekdays # ww
          /\ team_settings' =
                [team_settings_opened(team_settings, t) EXCEPT ![t].work_weekdays = ww]
    /\ UNCHANGED <<processes_df, global_holidays, df_raw, calendars_at_start, df,
                   processes_reversed, idx, pos, final_date,
                   current_reference_date, call, pc, error, df_scheduled,
                   admin_op>>

\* the holidays of a team are stored in the entry of the mapping the running
\* scheduler was given
EditTeamHolidays ==
    /\ pc \in {"rows", "procs"}
    /\ \E t \in EditableTeams, th \in EditedTeamHolidays :
          /\ team_settings_get(team_settings, t).team_holidays # th
          /\ team_settings' =
                [team_settings_opened(team_settings, t) EXCEPT ![t].team_holidays = th]
    /\ UNCHANGED <<processes_df, global_holidays, df_raw, calendars_at_start, df,
                   processes_reversed, idx, pos, final_date,
                   current_reference_date, call, pc, error, df_scheduled,
                   admin_op>>

NextEdit ==
    \/ Next
    \/ EditWorkWeekdays
    \/ EditTeamHolidays

\* a run of the scheduler during which the settings of a team are edited
SpecEdit == Init /\ [][NextEdit]_vars

\* the page is run again and calls the scheduler a second time with the same
\* session objects; the outcome of the first call is still held by the
\* caller, and nothing the first call left behind is assumed cleared
Rerun ==
    /\ pc \in {"returned", "raised"}
    /\ pc' = "start"
    /\ calendars_at_start' = [team_settings   |-> team_settings,
                              global_holidays |-> global_holidays]
    /\ UNCHANGED <<processes_df, team_settings, global_holidays, df_raw, df,
                   processes_reversed, idx, pos, final_date,
                   current_reference_date, call, error, df_scheduled,
                   admin_op>>

NextTwice ==
    \/ Next
    \/ Rerun

SpecTwice == Init /\ [][NextTwice]_vars

\* ------------------------------------------------------------------------
\* Admin page: the stored process list and the team settings
\* ------------------------------------------------------------------------
\* the most rows the process list of the model gets
MaxProcesses == 5

\* get_default_processes_df: Duration and Milestone processes in Order 1..N,
\* the PND and delivery sentinels last
DefaultProcessNames == <<"Cutting", "Fitting", "Final", NAME_PND, NAME_DELIVERY>>

get_default_processes_df == MakeProcessesDf(DefaultProcessNames)

\* the team codes of a process list
TeamCodes(table) == {table[k].Team_Code : k \in DOMAIN table}

\* init_session_state: Monday to Saturday and no holiday for every team code
\* of the process list
init_team_settings(table) ==
    [t \in TeamCodes(table) |-> TeamSetting({0, 1, 2, 3, 4, 5}, {})]

\* a session that was just initialised
InitAdmin ==
    /\ processes_df = get_default_processes_df
    /\ team_settings = init_team_settings(processes_df)
    /\ global_holidays = {}
    /\ df_raw = NoTable
    /\ calendars_at_start = [team_settings   |-> team_settings,
                             global_holidays |-> global_holidays]
    /\ df = NoTable
    /\ processes_reversed = << >>
    /\ idx = 0
    /\ pos = 0
    /\ final_date = NaT
    /\ current_reference_date = NaT
    /\ call = NoCall
    /\ pc = "start"
    /\ error = "none"
    /\ df_scheduled = NoTable
    /\ admin_op = NoOp

\* the Order column left as the rows have it
renumber_kept(rows) == rows

\* processes_df['Order'] = range(1, len(processes_df) + 1)
renumber(rows) == [k \in DOMAIN rows |-> [rows[k] EXCEPT !.Order = k]]

\* DataFrame.drop(index=i) of a frame indexed 0..N-1; i counts from 0
drop(rows, i) ==
    [k \in 1..(Len(rows) - 1) |-> IF k <= i THEN rows[k] ELSE rows[k + 1]]

\* an exchange of the names alone
swap_rows_names(rows, a, b) ==
    [k \in DOMAIN rows |->
        IF k = a + 1 THEN [rows[k] EXCEPT !.Process_Name = rows[b + 1].Process_Name]
        ELSE IF k = b + 1 THEN [rows[k] EXCEPT !.Process_Name = rows[a + 1].Process_Name]
        ELSE rows[k]]

\* processes_df.iloc[[a, b]] = processes_df.iloc[[b, a]].values: the two rows
\* exchange all their cells; a and b count from 0
swap_rows(rows, a, b) ==
    [k \in DOMAIN rows |->
        IF k = a + 1 THEN rows[b + 1]
        ELSE IF k = b + 1 THEN rows[a + 1]
        ELSE rows[k]]

\* pd.concat([row, processes_df.drop(index=selected_idx)])
move_to_top(rows, selected_idx) ==
    <<rows[selected_idx + 1]>> \o drop(rows, selected_idx)

\* pd.concat([processes_df.drop(index=selected_idx), row])
move_to_bottom(rows, selected_idx) ==
    drop(rows, selected_idx) \o <<rows[selected_idx + 1]>>

\* the rows shown on the page: sort_values('Order').reset_index(drop=True)
displayed == sort_values(processes_df)

\* the end of a run of the page in which a button was pressed: the list is
\* stored, renumbered, only when a move was made
StoreMove(op, selected_idx, moved, rows) ==
    /\ processes_df' = IF moved THEN renumber(rows) ELSE processes_df
    /\ admin_op' = [op |-> op, selected_idx |-> selected_idx, moved |-> moved]
    /\ UNCHANGED <<team_settings, global_holidays, df_raw, calendars_at_start, df,
                   processes_reversed, idx, pos, final_date,
                   current_reference_date, call, pc, error, df_scheduled>>

MoveUp ==
    \E selected_idx \in 0..(Len(displayed) - 1) :
        IF selected_idx > 0
        THEN StoreMove("up", selected_idx, TRUE,
                       swap_rows(displayed, selected_idx - 1, selected_idx))
        ELSE StoreMove("up", selected_idx, FALSE, displayed)

MoveDown ==
    \E selected_idx \in 0..(Len(displayed) - 1) :
        IF selected_idx < Len(displayed) - 1
        THEN StoreMove("down", selected_idx, TRUE,
                       swap_rows(displayed, selected_idx, selected_idx + 1))
        ELSE StoreMove("down", selected_idx, FALSE, displayed)

MoveTop ==
    \E selected_idx \in 0..(Len(displayed) - 1) :
        IF selected_idx > 0
        THEN StoreMove("top", selected_idx, TRUE, move_to_top(displayed, selected_idx))
        ELSE StoreMove("top", selected_idx, FALSE, displayed)

MoveBottom ==
    \E selected_idx \in 0..(Len(displayed) - 1) :
        IF selected_idx < Len(displayed) - 1
        THEN StoreMove("bottom", selected_idx, TRUE,
                       move_to_bottom(displayed, selected_idx))
        ELSE StoreMove("bottom", selected_idx, FALSE, displayed)

\* the rows a user adds in the editor of the model: a process of a new team,
\* or of the team of Cutting
AddedDefinitions ==
    { [Process_Name |-> "Painting", Type |-> "Duration", Team_Code |-> "painting"],
      [Process_Name |-> "Painting", Type |-> "Duration", Team_Code |-> "cutting"] }

\* the tables the data editor can give back for a table: a row removed, a row
\* added at the end, the Order of a row changed; an Order is any integer
\* from 1, here up to one more than the number of rows
EditedTables(table) ==
    LET Orders == 1..(Len(table) + 1) IN
    {drop(table, i) : i \in 0..(Len(table) - 1)}
    \cup {Append(table, [Process_Name |-> d.Process_Name, Type |-> d.Type,
                         Order |-> o, Team_Code |-> d.Team_Code]) :
             d \in {a \in AddedDefinitions :
                       /\ Len(table) < MaxProcesses
                       /\ \A k \in DOMAIN table :
                             table[k].Process_Name # a.Process_Name},
             o \in Orders}
    \cup UNION {{[table EXCEPT ![k].Order = o] : o \in Orders \ {table[k].Order}} :
                   k \in DOMAIN table}

\* the places of a sorted sequence a row can take by its Order; among rows
\* of the same Order the sort promises no sequence
InsertionsByOrder(sorted, r) ==
    {SubSeq(sorted, 1, q) \o <<r>> \o SubSeq(sorted, q + 1, Len(sorted)) :
        q \in {j \in 0..Len(sorted) :
                  /\ j = 0 \/ sorted[j].Order <= r.Order
                  /\ j = Len(sorted) \/ r.Order <= sorted[j + 1].Order}}

\* sort_values('Order') of an edited table: every sequence of the rows in
\* ascending Order
RECURSIVE SortedArrangements(_)
SortedArrangements(rows) ==
    IF rows = << >> THEN {<< >>}
    ELSE UNION {InsertionsByOrder(sorted, rows[Len(rows)]) :
                   sorted \in SortedArrangements(SubSeq(rows, 1, Len(rows) - 1))}

\* the settings of the teams in use only
team_settings_synced_kept(settings, table) ==
    [t \in DOMAIN settings |-> settings[t]]

\* the team settings after a table edit: an entry for every team code of the
\* table, the entries of the other team codes removed
team_settings_synced(settings, table) ==
    [t \in TeamCodes(table) |->
        IF t \in DOMAIN settings THEN settings[t]
        ELSE TeamSetting({0, 1, 2, 3, 4, 5}, {})]

\* the edited table differs from the stored one: it is stored sorted and
\* renumbered and the team settings follow it
TableEdit ==
    \E edited \in EditedTables(processes_df) :
        /\ edited # processes_df
        /\ \E sorted \in SortedArrangements(edited) :
              processes_df' = renumber(sorted)
        /\ team_settings' = team_settings_synced(team_settings, processes_df')
        /\ admin_op' = [op |-> "edit", selected_idx |-> 0, moved |-> FALSE]
        /\ UNCHANGED <<global_holidays, df_raw, calendars_at_start, df,
                       processes_reversed, idx, pos, final_date,
                       current_reference_date, call, pc, error, df_scheduled>>

\* the teams whose calendar is edited between two visits of the admin page
SettingsTeams == {"cutting"}

\* the settings panel of the scheduling page used for a team of the list:
\* Monday to Friday and one team holiday
SettingsPage ==
    /\ \E t \in EditableTeams \cap SettingsTeams :
          /\ team_settings_get(team_settings, t) # TeamSetting(MonFri, {HolidayCandidate})
          /\ team_settings' =
                [team_settings_opened(team_settings, t) EXCEPT
                    ![t] = TeamSetting(MonFri, {HolidayCandidate})]
    /\ admin_op' = [op |-> "settings", selected_idx |-> 0, moved |-> FALSE]
    /\ UNCHANGED <<processes_df, global_holidays, df_raw, calendars_at_start, df,
                   processes_reversed, idx, pos, final_date,
                   current_reference_date, call, pc, error, df_scheduled>>

NextAdmin ==
    \/ MoveUp
    \/ MoveDown
    \/ MoveTop
    \/ MoveBottom
    \/ TableEdit
    \/ SettingsPage

SpecAdmin == InitAdmin /\ [][NextAdmin]_vars

\* ------------------------------------------------------------------------
\* add_business_days_numpy called on its own
\* ------------------------------------------------------------------------
\* the arguments of the calls: the seven end dates from Monday 2026-04-27 on,
\* one day, none, and the numbers of days around the end of the lookback
\* window of a team that works one day a week; Monday only, Monday to
\* Saturday, no work weekday
WalkEndDates == {Date(2026, 4, 27) + k : k \in 0..6}

WalkDays == {0, 1, 104, 105}

WalkWeekdays == {{0}, MonSat, {}}

WalkCalls ==
    { [made            |-> FALSE,
       idx             |-> 0,
       process         |-> "none",
       end_date        |-> e,
       days            |-> n,
       work_weekdays   |-> w,
       global_holidays |-> g,
       team_holidays   |-> {},
       result          |-> [raised |-> FALSE, diverged |-> FALSE, date |-> NaT,
                            iteration |-> 0, days_counted |-> 0]] :
        e \in WalkEndDates, n \in WalkDays, w \in WalkWeekdays,
        g \in GlobalHolidaysChoices }

InitWalk ==
    /\ processes_df = << >>
    /\ team_settings = [t \in {} |-> DefaultTeamSetting]
    /\ global_holidays = {}
    /\ df_raw = NoTable
    /\ calendars_at_start = [team_settings   |-> team_settings,
                             global_holidays |-> global_holidays]
    /\ df = NoTable
    /\ processes_reversed = << >>
    /\ idx = 0
    /\ pos = 0
    /\ final_date = NaT
    /\ current_reference_date = NaT
    /\ call \in WalkCalls
    /\ pc = "start"
    /\ error = "none"
    /\ df_scheduled = NoTable
    /\ admin_op = NoOp

\* the call: it returns a date or raises ValueError
Walk ==
    /\ pc = "start"
    /\ ~call.made
    /\ \E r \in {add_business_days_numpy(call.end_date, call.days, call.work_weekdays,
                                         call.global_holidays, call.team_holidays)} :
          /\ call' = [call EXCEPT !.made = TRUE, !.result = r]
          /\ pc' = IF r.diverged THEN "looping"
                   ELSE IF r.raised THEN "raised" ELSE "returned"
          /\ error' = IF r.raised THEN "ValueError: add_business_days_numpy" ELSE error
    /\ UNCHANGED <<inputs, df_raw, df, processes_reversed, idx, pos, final_date,
                   current_reference_date, df_scheduled>>

NextWalk ==
    \/ Walk

SpecWalk == InitWalk /\ [][NextWalk]_vars

\* ------------------------------------------------------------------------
\* Properties
\* ------------------------------------------------------------------------
Returned == pc = "returned"

\* the rows of the process table
ProcRows == {processes_df[k] : k \in DOMAIN processes_df}

\* a working day of the team of process p: the weekday is a work weekday of
\* the team and the date is neither a team holiday nor a common holiday
IsWorkingDay(d, p) ==
    LET cal == IF p.Team_Code \in DOMAIN team_settings
               THEN team_settings[p.Team_Code]
               ELSE [work_weekdays |-> 0..5, team_holidays |-> {}]
    IN /\ Weekday(d) \in cal.work_weekdays
       /\ d \notin cal.team_holidays
       /\ d \notin global_holidays

\* the last day and the first day a process occupies in row i of the result
EndBoundary(i, p) ==
    IF p.Type = "Duration" THEN df_scheduled[i].End[p.Process_Name]
    ELSE df_scheduled[i].MDate[p.Process_Name]

StartBoundary(i, p) ==
    IF p.Type = "Duration" THEN df_scheduled[i].Start[p.Process_Name]
    ELSE df_scheduled[i].MDate[p.Process_Name]

\* C1: in the returned table, for every block and every two processes a, b
\* other than the sentinels with Order(a) < Order(b), a ends strictly
\* before b starts.
C1_Ordering ==
    Returned =>
        \A i \in DOMAIN df_scheduled : \A a, b \in ProcRows :
            (/\ ~IsSentinel(a)
             /\ ~IsSentinel(b)
             /\ a.Order < b.Order)
            => EndBoundary(i, a) < StartBoundary(i, b)

\* C2: in the returned table the _End of every Duration process is a working
\* day of the process's team calendar.
C2_EndOnWorkingDay ==
    Returned =>
        \A i \in DOMAIN df_scheduled : \A p \in ProcRows :
            p.Type = "Duration" => IsWorkingDay(df_scheduled[i].End[p.Process_Name], p)

\* C3: in the returned table the _Start of every Duration process is a
\* working day of the process's team calendar, whatever the duration.
C3_StartOnWorkingDay ==
    Returned =>
        \A i \in DOMAIN df_scheduled : \A p \in ProcRows :
            p.Type = "Duration" => IsWorkingDay(df_scheduled[i].Start[p.Process_Name], p)

\* C4: in the returned table the date of every Milestone other than the
\* sentinels is a working day of the process's team calendar.
C4_MilestoneOnWorkingDay ==
    Returned =>
        \A i \in DOMAIN df_scheduled : \A p \in ProcRows :
            (p.Type = "Milestone" /\ ~IsSentinel(p))
            => /\ df_scheduled[i].MDate[p.Process_Name] # NaT
               /\ IsWorkingDay(df_scheduled[i].MDate[p.Process_Name], p)

\* a returned table with a milestone whose walk skipped a holiday
C4_Witness ==
    /\ Returned
    /\ \E i \in DOMAIN df_scheduled : \E p \in ProcRows :
          /\ p.Type = "Milestone" /\ ~IsSentinel(p)
          /\ df_scheduled[i].MDate[p.Process_Name] + 1 \in global_holidays
          /\ Weekday(df_scheduled[i].MDate[p.Process_Name] + 1) \in 0..5

\* the processes of the pipeline by name
HasProcess(name) == \E p \in ProcRows : p.Process_Name = name

OrderOf(name) == (CHOOSE p \in ProcRows : p.Process_Name = name).Order

\* C5: whenever a PND date is recorded for a block it is the block's
\* deadline minus one calendar day, and a returned table of a pipeline with
\* the PND sentinel has it in every row.
C5_PNDFixedOffset ==
    /\ \A i \in DOMAIN df :
          df[i].PND # NaT => df[i].PND = df_raw[i].Final_Date - 1
    /\ (Returned /\ HasProcess(NAME_PND)) =>
          \A i \in DOMAIN df_scheduled :
              df_scheduled[i].PND = df_raw[i].Final_Date - 1

\* a returned table whose PND date is a Sunday, the PND sentinel being
\* visited after a process other than the sentinels
C5_Witness ==
    /\ Returned
    /\ HasProcess(NAME_PND)
    /\ \E p \in ProcRows : ~IsSentinel(p) /\ p.Order > OrderOf(NAME_PND)
    /\ \E i \in DOMAIN df_scheduled :
          /\ df_scheduled[i].PND = df_raw[i].Final_Date - 1
          /\ Weekday(df_scheduled[i].PND) = 6

\* C6: when the end date of a Duration process (reference date - 1) is a
\* holiday on a work weekday, the start date is one calendar day earlier
\* than the start date computed from the same inputs without that holiday.
C6_HolidayOnNaiveEnd ==
    (/\ call.made
     /\ ProcessPool[call.process].Type = "Duration"
     /\ call.days >= 1
     /\ ~call.result.raised
     /\ call.end_date \in (call.global_holidays \cup call.team_holidays)
     /\ Weekday(call.end_date) \in call.work_weekdays)
    => LET without == add_business_days_numpy(
                          call.end_date, call.days, call.work_weekdays,
                          call.global_holidays \ {call.end_date},
                          call.team_holidays \ {call.end_date})
       IN /\ ~without.raised
          /\ call.result.date = without.date - 1

\* the inputs of Scenario A
ScenarioAInputs ==
    /\ processes_df = MakeProcessesDf(<<"Cutting", "Final", NAME_PND>>)
    /\ df_raw = <<BlockRow(Date(2026, 4, 30), [n \in {"Cutting"} |-> CellInt(3)])>>
    /\ team_settings = [t \in {"cutting", "final", "pnd"} |-> TeamSetting(0..5, {})]
    /\ global_holidays = {}

\* C7: Scenario A returns PND = 2026-04-29 and Final = 2026-04-28.
C7_ScenarioA ==
    (ScenarioAInputs /\ Returned) =>
        /\ df_scheduled[1].PND = Date(2026, 4, 29)
        /\ df_scheduled[1].MDate["Final"] = Date(2026, 4, 28)

\* C8: a call of add_business_days_numpy with no work weekday and n >= 1
\* raises after at most max_iterations steps back; no date comes out of it
\* and the run returns no table.
C8_EmptyWeekdaysRaises ==
    (/\ call.made
     /\ call.work_weekdays = {}
     /\ call.days >= 1)
    => /\ call.result.raised
       /\ call.result.iteration <= max_iterations
       /\ call.result.days_counted = 0
       /\ pc = "raised"
       /\ error = "ValueError: add_business_days_numpy"
       /\ df_scheduled = NoTable
       /\ df[call.idx].Start[call.process] = NaT
       /\ df[call.idx].MDate[call.process] = NaT

\* a call with no work weekday that raised after the whole lookback
C8_Witness ==
    /\ call.made
    /\ call.work_weekdays = {}
    /\ call.days >= 1
    /\ call.result.raised
    /\ call.result.iteration = max_iterations
    /\ pc = "raised"

\* the row has no <process>_Days value: no column, or NaN
MissingDays(row, name) ==
    name \notin DOMAIN row.Days \/ row.Days[name].kind = "nan"

\* C9: visiting a Duration process whose days are missing for the block
\* walks 5 business days, raises nothing for the missing value, and, the
\* walk succeeding, records the dates and goes on to the next process.
C9_MissingDurationDefault ==
    [][ (/\ pc = "procs"
         /\ ~IsSentinel(process)
         /\ process.Type = "Duration"
         /\ MissingDays(df_raw[idx], process.Process_Name))
        => /\ call'.made
           /\ call'.idx = idx
           /\ call'.process = process.Process_Name
           /\ call'.days = 5
           /\ error' # "ValueError: int"
           /\ ~call'.result.raised =>
                 /\ pc' \in {"procs", "rows"}
                 /\ pos' = pos + 1
                 /\ error' = "none"
                 /\ df'[idx].Start[process.Process_Name] = call'.result.date
                 /\ df'[idx].End[process.Process_Name] = call'.end_date ]_vars

\* a returned table of two blocks, the first without a days value, in which
\* both blocks have the dates of the Duration process
C9_Witness ==
    /\ Returned
    /\ Len(df_scheduled) >= 2
    /\ HasProcess("Cutting")
    /\ "Cutting" \in DOMAIN df_raw[1].Days
    /\ MissingDays(df_raw[1], "Cutting")
    /\ df_scheduled[1].Start["Cutting"] # NaT
    /\ df_scheduled[2].Start["Cutting"] # NaT

\* C10: a days value that is no number is treated as missing: the walk is
\* made with 5 days and no error is raised for the value.
C10_InvalidDurationDefault ==
    /\ error # "ValueError: int"
    /\ (/\ call.made
        /\ call.process \in DOMAIN df_raw[call.idx].Days
        /\ df_raw[call.idx].Days[call.process].kind = "str")
       => call.days = 5

\* the integer in the days cell of a Duration process, if there is one
HasIntDays(row, name) ==
    name \in DOMAIN row.Days /\ row.Days[name].kind = "int"

\* C11: in the returned table every Duration process has _Start <= _End,
\* whatever integer its duration is.
C11_StartNotAfterEnd ==
    Returned =>
        \A i \in DOMAIN df_scheduled : \A p \in ProcRows :
            p.Type = "Duration" =>
                /\ df_scheduled[i].Start[p.Process_Name] # NaT
                /\ df_scheduled[i].End[p.Process_Name] # NaT
                /\ df_scheduled[i].Start[p.Process_Name]
                       <= df_scheduled[i].End[p.Process_Name]

\* a returned table with a block of negative duration (start = end) and a
\* block of positive duration (start < end)
C11_Witness ==
    /\ Returned
    /\ HasProcess("Cutting")
    /\ \E i, j \in DOMAIN df_scheduled :
          /\ HasIntDays(df_raw[i], "Cutting")
          /\ df_raw[i].Days["Cutting"].v < 0
          /\ df_scheduled[i].Start["Cutting"] = df_scheduled[i].End["Cutting"]
          /\ HasIntDays(df_raw[j], "Cutting")
          /\ df_raw[j].Days["Cutting"].v > 0
          /\ df_scheduled[j].Start["Cutting"] < df_scheduled[j].End["Cutting"]

\* C12: a call of add_business_days_numpy with days = 0 returns end_date
\* itself without a walk and without an error, whatever the calendar; the
\* date is recorded as the start of the process.
C12_ZeroDurationIdentity ==
    (call.made /\ call.days = 0)
    => /\ ~call.result.raised
       /\ ~call.result.diverged
       /\ call.result.date = call.end_date
       /\ call.result.iteration = 0
       /\ error # "ValueError: add_business_days_numpy"
       /\ pc # "looping"
       /\ df[call.idx].Start[call.process] = call.end_date

\* a call with days = 0 under a calendar without any work weekday
C12_Witness ==
    /\ call.made
    /\ call.days = 0
    /\ call.work_weekdays = {}
    /\ call.result.date = call.end_date
    /\ Weekday(call.end_date) = 6
    /\ pc # "raised"

\* the schedule of one block computed from the block alone: the processes
\* k.. of the descending pipeline applied to the row out, the deadline being
\* final and the reference date ref
RECURSIVE SoloFrom(_, _, _, _)
SoloFrom(out, final, ref, k) ==
    LET prs == reversed(sort_values(processes_df)) IN
    IF k > Len(prs) THEN [ok |-> TRUE, row |-> out]
    ELSE
      LET p   == prs[k]
          n   == p.Process_Name
          cal == team_settings_get(team_settings, p.Team_Code)
      IN
      IF n = NAME_DELIVERY
      THEN SoloFrom([out EXCEPT !.Final_Date = final], final, ref, k + 1)
      ELSE IF n = NAME_PND
      THEN SoloFrom([out EXCEPT !.PND = final - 1], final, final - 1, k + 1)
      ELSE IF p.Type = "Milestone"
      THEN LET r == add_business_days_numpy(ref - 1, 1, cal.work_weekdays,
                                            global_holidays, cal.team_holidays)
           IN IF r.raised \/ r.diverged THEN [ok |-> FALSE, row |-> out]
              ELSE SoloFrom([out EXCEPT !.MDate[n] = r.date], final, r.date, k + 1)
      ELSE IF n \in DOMAIN out.Days /\ out.Days[n].kind = "str"
      THEN [ok |-> FALSE, row |-> out]
      ELSE LET days == IF MissingDays(out, n) THEN 5 ELSE out.Days[n].v
               r == add_business_days_numpy(ref - 1, days, cal.work_weekdays,
                                            global_holidays, cal.team_holidays)
           IN IF r.raised \/ r.diverged THEN [ok |-> FALSE, row |-> out]
              ELSE SoloFrom([out EXCEPT !.Start[n] = r.date, !.End[n] = ref - 1],
                            final, r.date, k + 1)

Solo(row) == SoloFrom(OutputRow(row), row.Final_Date, row.Final_Date, 1)

Finished == pc \in {"returned", "raised"}

\* C13: a block that can be scheduled has, at the end of every run whose
\* batch holds it, the dates it has when scheduled alone, whatever the other
\* blocks of the batch are, also when another block fails.
C13_BlockIndependence ==
    Finished =>
        \A i \in DOMAIN df_raw :
            Solo(df_raw[i]).ok =>
                /\ Returned
                /\ df_scheduled[i] = Solo(df_raw[i]).row

\* C13 as amended: a run returns a table exactly when every block of the
\* batch can be scheduled alone, every row of the table is the schedule of
\* its block alone, and a run that fails fails on a block that fails alone.
C13_BlockIndependenceOfReturned ==
    /\ Returned =>
          \A i \in DOMAIN df_raw :
              /\ Solo(df_raw[i]).ok
              /\ df_scheduled[i] = Solo(df_raw[i]).row
    /\ pc = "raised" =>
          /\ ~Solo(df_raw[idx]).ok
          /\ \A i \in 1..(idx - 1) : Solo(df_raw[i]).ok /\ df[i] = Solo(df_raw[i]).row

\* a returned table of two different blocks with different dates
C13_Witness ==
    /\ Returned
    /\ Len(df_scheduled) = 2
    /\ df_raw[1].Final_Date # df_raw[2].Final_Date
    /\ df_scheduled[1] = Solo(df_raw[1]).row
    /\ df_scheduled[2] = Solo(df_raw[2]).row
    /\ df_scheduled[1].PND # df_scheduled[2].PND

WalkError == "ValueError: add_business_days_numpy"

\* C15: a step whose business-day walk fails ends the run with the error and
\* without a table, nothing follows it, and no step of a run, failing or
\* not, changes the table of the caller.
C15_BatchAbort ==
    [][ /\ df_raw' = df_raw
        /\ (pc = "procs" /\ call'.made /\ call'.result.raised)
              => /\ pc' = "raised"
                 /\ error' = WalkError
                 /\ df_scheduled' = NoTable
        /\ pc = "raised" => pc' = "raised" /\ df_scheduled' = NoTable
      ]_vars

\* the walk failed on the second block, after dates of the first block were
\* written to the working table
C15_Witness ==
    /\ pc = "raised"
    /\ error = WalkError
    /\ idx = 2
    /\ df # df_copy(df_raw)
    /\ df_scheduled = NoTable
    /\ call.result.raised

TeamOf(name) == (CHOOSE p \in ProcRows : p.Process_Name = name).Team_Code

UnknownTeamCall == call.made /\ TeamOf(call.process) \notin DOMAIN team_settings

\* C16: a call made for a process whose team code is not a key of
\* team_settings walks with the weekdays Monday to Saturday, no team holiday
\* and the global holidays; no error comes from the lookup; the outcome, and
\* the date written, are those of a calendar configured as Monday to
\* Saturday without team holidays.
C16_UnknownTeamDefault ==
    UnknownTeamCall =>
        /\ call.work_weekdays = {0, 1, 2, 3, 4, 5}
        /\ call.team_holidays = {}
        /\ call.global_holidays = global_holidays
        /\ error \in {"none", WalkError, "ValueError: int"}
        /\ call.result = add_business_days_numpy(call.end_date, call.days,
                             TeamSetting(MonSat, {}).work_weekdays, global_holidays,
                             TeamSetting(MonSat, {}).team_holidays)
        /\ ~call.result.raised
        /\ (pc \in {"procs", "rows", "returned"}) =>
              \A p \in ProcRows :
                  p.Process_Name = call.process =>
                      IF p.Type = "Milestone"
                      THEN df[call.idx].MDate[call.process] = call.result.date
                      ELSE df[call.idx].Start[call.process] = call.result.date

\* a walk for an unconfigured team that counted a Saturday and stepped over
\* a global holiday
C16_Witness ==
    /\ UnknownTeamCall
    /\ pc \in {"procs", "rows"}
    /\ call.days >= 1
    /\ df[call.idx].Start[call.process] = call.result.date
    /\ \E d \in (call.result.date + 1)..(call.end_date - 1) : d \in global_holidays
    /\ \E d \in call.result.date..(call.end_date - 1) : Weekday(d) = 5

\* the dates around the end date of the last walk
CallWindow == (call.end_date - CheckWindow)..(call.end_date + CheckWindow)

\* the working-day test as the walk of the last call applies it
CallWorkDay(d) ==
    is_work_day_numpy(d, work_weekdays_to_weekmask(call.work_weekdays),
                      holidays_to_numpy_array(call.global_holidays, call.team_holidays))

\* C17: under the calendar of every call, a date is a working day exactly
\* when its weekday is a work weekday of the team and it is neither a team
\* holiday nor a global holiday; a date of either holiday set is not a
\* working day, and the walk counts exactly the working days it passed.
C17_WorkingDayTest ==
    call.made =>
        /\ \A d \in CallWindow :
              /\ CallWorkDay(d) <=>
                    /\ Weekday(d) \in call.work_weekdays
                    /\ d \notin call.team_holidays
                    /\ d \notin call.global_holidays
              /\ (d \in call.team_holidays \/ d \in global_holidays) => ~CallWorkDay(d)
        /\ (~call.result.raised /\ call.days >= 1) =>
              Cardinality({d \in call.result.date..(call.end_date - 1) :
                              /\ Weekday(d) \in call.work_weekdays
                              /\ d \notin call.team_holidays
                              /\ d \notin global_holidays}) = call.result.days_counted

\* a walk that stepped over a global holiday falling on a work weekday of a
\* team that has a team holiday too
C17_Witness ==
    /\ call.made
    /\ ~call.result.raised
    /\ call.team_holidays # {}
    /\ \E d \in (call.result.date + 1)..(call.end_date - 1) :
          /\ d \in global_holidays
          /\ Weekday(d) \in call.work_weekdays
    /\ \E d \in CallWindow :
          /\ d \in global_holidays
          /\ d \notin call.team_holidays
          /\ Weekday(d) \in call.work_weekdays
          /\ ~CallWorkDay(d)

\* the steps a run still has to take at most: one per process left in the
\* row, one per row left and its processes, one to return
StepsLeft ==
    LET L == IF pc = "start" THEN Len(df_raw) ELSE Len(df)
        P == IF pc = "start" THEN Len(processes_df) ELSE Len(processes_reversed)
    IN CASE pc = "start" -> L * (P + 1) + 2
         [] pc = "rows"  -> (L - idx) * (P + 1) + 1
         [] pc = "procs" -> (L - idx) * (P + 1) + 1 + (P - pos + 1)
         [] OTHER        -> 0

\* a step can be taken: the steps that make no walk are enabled, or the
\* process is one of the two types for which a walk is made and its outcome
\* written or raised
CanStep ==
    IF pc = "procs" /\ pos \in DOMAIN processes_reversed /\ ~IsSentinel(process)
    THEN process.Type \in {"Milestone", "Duration"} /\ idx \in DOMAIN df
    ELSE ENABLED (Begin \/ NextRow \/ Return \/ VisitDelivery \/ VisitPND)

\* C18: every call of add_business_days_numpy comes back, after at most
\* max_iterations (730) passes of its loop, each of which examines one day;
\* a run that has not ended can always take a step, and every step leaves
\* fewer steps to take, so every run ends, with a table or with an error.
C18_Termination ==
    /\ [](call.made => /\ ~call.result.diverged
                       /\ call.result.iteration <= max_iterations
                       /\ call.result.iteration >= 0
                       /\ call.result.raised
                             \/ call.result.date >= call.end_date - max_iterations)
    /\ [](pc \in {"start", "rows", "procs", "returned", "raised"})
    /\ [](pc \in {"start", "rows", "procs"} => CanStep)
    /\ [](StepsLeft >= 0)
    /\ [][StepsLeft' < StepsLeft]_vars

\* a walk that used all 730 passes and ended the run with the error
C18_Witness ==
    /\ call.made
    /\ call.result.iteration = max_iterations
    /\ call.result.raised
    /\ pc = "raised"
    /\ StepsLeft = 0

\* C19: reading the deadline of a row and visiting the Delivery sentinel
\* raise nothing, whatever day the deadline is; the sentinel writes the
\* deadline of the input row and leaves the reference date as it is; the
\* deadline column of a returned table is the one of the input.
C19_DeadlineLiteralAnchor ==
    /\ [][ /\ (pc = "rows" /\ pc' = "procs")
                => /\ final_date' = df_raw[idx'].Final_Date
                   /\ current_reference_date' = df_raw[idx'].Final_Date
                   /\ error' = error
           /\ (pc = "procs" /\ process.Process_Name = NAME_DELIVERY)
                => /\ df'[idx].Final_Date = df_raw[idx].Final_Date
                   /\ current_reference_date' = current_reference_date
                   /\ error' = error
                   /\ pc' \in {"procs", "rows"}
         ]_vars
    /\ [](Returned => \A i \in DOMAIN df_raw :
                          df_scheduled[i].Final_Date = df_raw[i].Final_Date)

\* a returned table whose deadline is a global holiday, the sentinel having
\* been visited after the walk of the Final milestone
C19_Witness ==
    /\ Returned
    /\ HasProcess(NAME_DELIVERY)
    /\ OrderOf(NAME_DELIVERY) < OrderOf("Final")
    /\ df_raw[1].Final_Date \in global_holidays
    /\ df_scheduled[1].Final_Date = df_raw[1].Final_Date
    /\ df_scheduled[1].MDate["Final"] < df_raw[1].Final_Date

InputShaped(table) ==
    \A i \in DOMAIN table : DOMAIN table[i] = {"Final_Date", "Days"}

\* C21: no step of a run, up to its return or its error, changes the block
\* table of the caller, the process table, team_settings or the global
\* holidays; the dates are written to the copy, which keeps the deadline and
\* duration cells of the caller's rows.
C21_InputsReadOnly ==
    /\ [][ /\ df_raw' = df_raw
           /\ processes_df' = processes_df
           /\ team_settings' = team_settings
           /\ global_holidays' = global_holidays ]_vars
    /\ [](/\ InputShaped(df_raw)
          /\ team_settings = calendars_at_start.team_settings
          /\ global_holidays = calendars_at_start.global_holidays
          /\ pc # "start" =>
                /\ Len(df) = Len(df_raw)
                /\ \A i \in DOMAIN df : /\ df[i].Final_Date = df_raw[i].Final_Date
                                        /\ df[i].Days = df_raw[i].Days)

\* a returned table with dates, made with the fallback calendar of a team
\* that has no entry, the mapping still being empty
C21_Witness ==
    /\ Returned
    /\ call.made
    /\ DOMAIN team_settings = {}
    /\ Len(processes_df) = 4
    /\ df_scheduled # df_copy(df_raw)
    /\ InputShaped(df_raw)

\* C22: the visit of the PND sentinel records the reference date of that
\* moment minus one calendar day and makes it the reference date, also when
\* processes ordered after PND have moved the reference date away from the
\* deadline.
C22_PNDRunningReference ==
    [][ (pc = "procs" /\ process.Process_Name = NAME_PND)
            => /\ df'[idx].PND = current_reference_date - 1
               /\ current_reference_date' = current_reference_date - 1 ]_vars

\* a working day of the calendar of the last call, by definition
CallWorkingDay(d) ==
    /\ Weekday(d) \in call.work_weekdays
    /\ d \notin call.team_holidays
    /\ d \notin call.global_holidays

\* C23: a call for n >= 1 days that returns gives a working day d before
\* end_date with exactly n working days in d..end_date - 1; the days examined
\* are end_date - 1, end_date - 2, .. down to d, one per pass, so end_date
\* itself is neither examined nor counted.
C23_NthWorkingDay ==
    (call.made /\ call.days >= 1 /\ ~call.result.raised) =>
        /\ CallWorkingDay(call.result.date)
        /\ call.result.date < call.end_date
        /\ Cardinality({d \in call.result.date..(call.end_date - 1) :
                           CallWorkingDay(d)}) = call.days
        /\ call.result.days_counted = call.days
        /\ call.result.iteration = call.end_date - call.result.date

\* three working days found although the end date is a working day too and
\* a holiday and a Sunday lie among the days examined
C23_Witness ==
    /\ call.made
    /\ call.days = 3
    /\ ~call.result.raised
    /\ CallWorkingDay(call.end_date)
    /\ \E d \in call.result.date..(call.end_date - 1) : d \in call.team_holidays
    /\ \E d \in call.result.date..(call.end_date - 1) : Weekday(d) = 6
    /\ df[call.idx].Start[call.process] = call.result.date

\* the value the table holds for the nearest process that was visited before
\* position k of the descending pipeline and is not the delivery sentinel:
\* the _Start of a Duration process, the date of a Milestone, the PND date;
\* the deadline of the row when there is no such process
HandedReference(table, i, k) ==
    LET later == {j \in 1..(k - 1) :
                     processes_reversed[j].Process_Name # NAME_DELIVERY}
    IN IF later = {} THEN df_raw[i].Final_Date
       ELSE LET b == processes_reversed[CHOOSE j \in later : \A m \in later : m <= j]
            IN IF b.Process_Name = NAME_PND THEN table[i].PND
               ELSE IF b.Type = "Milestone" THEN table[i].MDate[b.Process_Name]
               ELSE table[i].Start[b.Process_Name]

DurationPositions ==
    {k \in DOMAIN processes_reversed :
        /\ ~IsSentinel(processes_reversed[k])
        /\ processes_reversed[k].Type = "Duration"}

\* C24: the reference date a process is handed is the value recorded for the
\* nearest later process (the deadline when only Delivery is later); a
\* Duration process gets as _End that date minus one calendar day, and its
\* _Start becomes the reference date.
C24_ReferenceHandOff ==
    /\ [](pc = "procs" => current_reference_date = HandedReference(df, idx, pos))
    /\ [][ (pc = "procs" /\ pos \in DurationPositions /\ pc' \in {"procs", "rows"})
              => /\ df'[idx].End[process.Process_Name] = current_reference_date - 1
                 /\ current_reference_date' = df'[idx].Start[process.Process_Name]
         ]_vars
    /\ [](Returned =>
            \A i \in DOMAIN df_scheduled : \A k \in DurationPositions :
                df_scheduled[i].End[processes_reversed[k].Process_Name]
                    = HandedReference(df_scheduled, i, k) - 1)

\* Cutting ends the day before Fitting starts, Fitting the day before the
\* Final milestone
C24_Witness ==
    /\ Returned
    /\ \E k \in DOMAIN processes_reversed :
          /\ k + 2 <= Len(processes_reversed)
          /\ processes_reversed[k].Process_Name = "Final"
          /\ processes_reversed[k + 1].Process_Name = "Fitting"
          /\ processes_reversed[k + 2].Process_Name = "Cutting"
    /\ df_scheduled[1].End["Cutting"] = df_scheduled[1].Start["Fitting"] - 1
    /\ df_scheduled[1].End["Fitting"] = df_scheduled[1].MDate["Final"] - 1
    /\ df_scheduled[1].Start["Fitting"] < df_scheduled[1].End["Fitting"]

\* C25: the stored process list has the Order values 1..N, each once, in
\* the session as initialised and after every move and every table edit.
C25_OrderNormalized ==
    /\ \A k \in DOMAIN processes_df : processes_df[k].Order = k
    /\ {processes_df[k].Order : k \in DOMAIN processes_df} = 1..Len(processes_df)
    /\ \A j, k \in DOMAIN processes_df :
          j # k => processes_df[j].Order # processes_df[k].Order

\* a list stored by a table edit that added a row with the Order of another
\* row, after a row had been removed
C25_Witness ==
    /\ admin_op.op = "edit"
    /\ Len(processes_df) = MaxProcesses
    /\ \E k \in DOMAIN processes_df : processes_df[k].Process_Name = "Painting"
    /\ processes_df[Len(processes_df)].Process_Name # "Painting"
    /\ C25_OrderNormalized

\* C26: the date recorded for a Milestone that is not a sentinel is the
\* latest working day of its team before the day reference - 1: it is at
\* least two calendar days before the reference date, no working day lies
\* between it and reference - 1, and reference - 1 itself is not taken.
C26_MilestoneGap ==
    [][ (/\ pc = "procs"
         /\ ~IsSentinel(process)
         /\ process.Type = "Milestone"
         /\ pc' \in {"procs", "rows"})
            => LET d == df'[idx].MDate[process.Process_Name] IN
               /\ d <= current_reference_date - 2
               /\ d # current_reference_date - 1
               /\ IsWorkingDay(d, process)
               /\ \A e \in (d + 1)..(current_reference_date - 2) :
                     ~IsWorkingDay(e, process)
               /\ current_reference_date' = d
      ]_vars

\* the Final milestone two days before the deadline although the day before
\* the deadline is a working day
C26_Witness ==
    /\ Returned
    /\ \E p \in ProcRows :
          /\ p.Process_Name = "Final"
          /\ p.Order = Len(processes_df)
          /\ IsWorkingDay(df_raw[1].Final_Date - 1, p)
    /\ df_scheduled[1].MDate["Final"] = df_raw[1].Final_Date - 2

\* the working days among the max_iterations days before the end date of the
\* last call
WindowWorkingDays ==
    {d \in (call.end_date - max_iterations)..(call.end_date - 1) : CallWorkingDay(d)}

\* C27: a call for n >= 1 days raises only when the 730 days before end_date
\* hold fewer than n working days; when they hold n, it returns the n-th of
\* them counted backward, also when that is the 730th day examined.
C27_NoFalseAbort ==
    (call.made /\ call.days >= 1) =>
        /\ call.result.raised => Cardinality(WindowWorkingDays) < call.days
        /\ Cardinality(WindowWorkingDays) >= call.days =>
              /\ ~call.result.raised
              /\ call.result.date \in WindowWorkingDays
              /\ Cardinality({d \in WindowWorkingDays : d >= call.result.date})
                    = call.days

\* C28: for a Duration process whose duration is 0 or negative no day is
\* examined and nothing is raised, whatever the calendar; _Start and _End
\* are both the reference date minus one calendar day, and _Start becomes
\* the reference date.
C28_NonPositiveDuration ==
    [][ (/\ pc = "procs"
         /\ pos \in DurationPositions
         /\ ~duration_days(df[idx], process.Process_Name).raised
         /\ duration_days(df[idx], process.Process_Name).days <= 0)
            => /\ call'.made
               /\ call'.days = duration_days(df[idx], process.Process_Name).days
               /\ call'.result.iteration = 0
               /\ ~call'.result.raised
               /\ pc' \in {"procs", "rows"}
               /\ error' = error
               /\ df'[idx].End[process.Process_Name] = current_reference_date - 1
               /\ df'[idx].Start[process.Process_Name] = current_reference_date - 1
               /\ current_reference_date' = current_reference_date - 1
      ]_vars

\* a process of -2 days put on the Sunday before its Monday deadline
C28_Witness ==
    /\ call.made
    /\ call.days < 0
    /\ pc \in {"procs", "rows"}
    /\ df[call.idx].Start[call.process] = df[call.idx].End[call.process]
    /\ df[call.idx].Start[call.process] = df_raw[call.idx].Final_Date - 1
    /\ Weekday(df[call.idx].Start[call.process]) = 6
    /\ current_reference_date = df[call.idx].Start[call.process]

\* the definitions of a process list in its sequence: name, type, team code
Definitions(table) ==
    [k \in DOMAIN table |-> [Process_Name |-> table[k].Process_Name,
                             Type         |-> table[k].Type,
                             Team_Code    |-> table[k].Team_Code]]

\* a sequence without its element at place k
Without(seq, k) == SubSeq(seq, 1, k - 1) \o SubSeq(seq, k + 1, Len(seq))

MoveOps == {"up", "down", "top", "bottom"}

\* C29: a move button leaves the process definitions and the sequence of
\* the processes other than the selected one as they are, puts the selected
\* process one place up or down, first or last, and changes nothing when
\* the selected process is already first (up, to top) or last (down, to
\* bottom).
C29_ReorderPreservesPipeline ==
    [][ admin_op'.op \in MoveOps =>
          LET i        == admin_op'.selected_idx + 1
              old      == Definitions(processes_df)
              new      == Definitions(processes_df')
              N        == Len(old)
              towards  == IF admin_op'.op \in {"up", "top"} THEN 1 ELSE N
              target   == CASE admin_op'.op = "up"     -> IF i > 1 THEN i - 1 ELSE i
                            [] admin_op'.op = "down"   -> IF i < N THEN i + 1 ELSE i
                            [] admin_op'.op = "top"    -> 1
                            [] admin_op'.op = "bottom" -> N
          IN /\ i \in 1..N
             /\ Len(new) = N
             /\ new[target] = old[i]
             /\ Without(new, target) = Without(old, i)
             /\ {new[k] : k \in 1..N} = {old[k] : k \in 1..N}
             /\ team_settings' = team_settings
             /\ admin_op'.moved <=> i # towards
             /\ i = towards => processes_df' = processes_df
      ]_vars

\* PND moved from the fourth place of the default list to the top
C29_Witness ==
    /\ admin_op = [op |-> "top", selected_idx |-> 3, moved |-> TRUE]
    /\ processes_df = MakeProcessesDf(<<NAME_PND, "Cutting", "Fitting", "Final",
                                        NAME_DELIVERY>>)

\* C30: every team code of the stored process list is a key of
\* team_settings, so team_settings.get never takes its default for a
\* process of the list; a table edit leaves exactly the team codes in use
\* as keys, with the settings the kept teams had and Monday to Saturday
\* without holidays for the new ones; a move leaves team_settings alone.
C30_TeamSettingsCoverPipeline ==
    /\ [](/\ TeamCodes(processes_df) \subseteq DOMAIN team_settings
          /\ \A k \in DOMAIN processes_df :
                team_settings_get(team_settings, processes_df[k].Team_Code)
                    = team_settings[processes_df[k].Team_Code])
    /\ [][ /\ admin_op'.op = "edit" =>
                /\ DOMAIN team_settings' = TeamCodes(processes_df')
                /\ \A t \in DOMAIN team_settings' :
                      team_settings'[t] =
                          IF t \in DOMAIN team_settings THEN team_settings[t]
                          ELSE [work_weekdays |-> {0, 1, 2, 3, 4, 5},
                                team_holidays |-> {}]
           /\ admin_op'.op \in MoveOps =>
                /\ team_settings' = team_settings
                /\ TeamCodes(processes_df') = TeamCodes(processes_df)
         ]_vars

\* after Fitting and Cutting were removed and a process of the cutting team
\* was added: no entry for fitting, the entry for cutting kept
C30_Witness ==
    /\ admin_op.op = "edit"
    /\ \A k \in DOMAIN processes_df :
          processes_df[k].Process_Name \notin {"Cutting", "Fitting"}
    /\ \E k \in DOMAIN processes_df :
          /\ processes_df[k].Process_Name = "Painting"
          /\ processes_df[k].Team_Code = "cutting"
    /\ "fitting" \notin DOMAIN team_settings
    /\ "cutting" \in DOMAIN team_settings
    /\ team_settings["cutting"].work_weekdays = MonFri
    /\ DOMAIN team_settings = TeamCodes(processes_df)

====
